---- MODULE Spec2Model ----
\* Model of transcription.py: transcribe_audio (retry loop), diarize_audio
\* (re-labelling), align_transcript_with_diarization (service call with
\* deterministic fallback) and transcribe_and_diarize (the orchestrator), and
\* of summarize_rpg_session.py: validate_input_paths and the command main.
\*
\* A Python string is modelled as the sequence of the pieces it is built
\* from (f-string literals and interpolated values); concatenation is \o and
\* the empty string is << >>.  None is a value of its own kind, never a string.
EXTENDS Integers, Sequences, FiniteSets, TLC

VARIABLES
    pc,            \* position of the single thread of control
    speaker_names, \* argument of transcribe_and_diarize (None or a list)
    hf_token,      \* "HF_TOKEN" in os.environ
    retries,       \* transcribe_audio local
    last_error,    \* transcribe_audio local
    exc,           \* exception in flight inside transcribe_audio's try
    file_open,     \* the audio file handle of the current attempt is open
    sleeping,      \* seconds of the time.sleep in progress (0: not sleeping)
    attempts,      \* log: outcome of every attempt of transcribe_audio
    sleeps,        \* log: argument of every time.sleep call
    loads,         \* log: number of Pipeline.from_pretrained calls
    trace,         \* log: calls and returns of the three stages
    transcript,    \* transcribe_and_diarize local
    diarization_segments, \* transcribe_and_diarize local
    t_out,         \* outcome of transcribe_audio
    d_out,         \* outcome of diarize_audio
    a_out,         \* outcome of align_transcript_with_diarization
    chat,          \* log: outcome of the chat completion call
    result,        \* outcome of transcribe_and_diarize
    diarization,   \* log: outcome of pipeline(audio_path) and itertracks
    f_args,        \* arguments of a direct call of the fallback
    f_out,         \* outcome of that call
    v_args,        \* arguments of a call of validate_input_paths
    fs_exists,     \* paths for which os.path.exists is true
    fs_writable,   \* directories for which os.access(d, os.W_OK) is true
    v_out,         \* outcome of validate_input_paths
    inv,           \* the frames of two concurrent transcribe_and_diarize calls
    opens,         \* log: number of open(audio_path, "rb") calls
    m_args,        \* options of a run of the CLI's main
    openai_key,    \* "OPENAI_API_KEY" in os.environ after load_dotenv()
    transcript_content, \* main local
    m_trace,       \* log: checks, pipeline calls and file writes of main
    exit_code      \* exit status of the CLI process

vars == <<pc, speaker_names, hf_token, retries, last_error, exc, file_open,
          sleeping, attempts, sleeps, loads, trace, transcript,
          diarization_segments, t_out, d_out, a_out, chat, result,
          diarization, f_args, f_out, v_args, fs_exists, fs_writable, v_out,
          inv, opens, m_args, openai_key, transcript_content, m_trace,
          exit_code>>

\* state of the other entry points, untouched by transcribe_and_diarize
auxVars == <<f_args, f_out, v_args, fs_exists, fs_writable, v_out, inv,
             m_args, openai_key, transcript_content, m_trace, exit_code>>
cliVars == <<m_args, openai_key, transcript_content, m_trace, exit_code>>
valVars == <<v_args, fs_exists, fs_writable, v_out>>

\* ---------------------------------------------------------------- bounds
MaxSegs == 3          \* longest track list the diarization model yields

\* ------------------------------------------------------------- constants
MAX_RETRIES == 3
RETRY_DELAY == 2

AUDIO == "session.mp3"
None == [kind |-> "None"]
Pending == [kind |-> "pending"]

Return(v) == [kind |-> "return", value |-> v]
Raise(t, m) == [kind |-> "raise", type |-> t, msg |-> m]

\* str(x) inside an f-string: None prints as the word None
Some(v) == [kind |-> "some", value |-> v]
Str(x) == IF x = None THEN <<"None">> ELSE x.value

RECURSIVE Pow2(_)
Pow2(n) == IF n = 0 THEN 1 ELSE 2 * Pow2(n - 1)

\* ------------------------------------------------- speech-to-text service
\* What one attempt can meet: the file cannot be opened, the service raises
\* RateLimitError, raises something else, answers with text None, or answers
\* with a text (possibly the empty string).
Texts == { <<"hello world">>, << >> }
ErrorTexts == { <<"Connection error">> }
OpenError == [kind |-> "open_error", msg |-> <<"No such file">>]
RateLimitError == [kind |-> "rate_limit"]
ServiceOutcomes ==
    { RateLimitError, [kind |-> "none_text"] }
    \cup { [kind |-> "error", msg |-> m] : m \in ErrorTexts }
    \cup { [kind |-> "text", text |-> t] : t \in Texts }

\* the loop test of transcribe_audio
LoopContinues_Inclusive(r) == r <= MAX_RETRIES
LoopContinues(r) == r < MAX_RETRIES

\* wait_time of the RateLimitError handler, retries already incremented to r
RateLimitWait_BeforeIncrement(r) == RETRY_DELAY * Pow2(r - 1)
RateLimitWait(r) == RETRY_DELAY * Pow2(r)

\* the argument of time.sleep in the handler that caught e, retries already
\* incremented to r
SleepFor(e, r) == IF e.kind = "rate_limit" THEN RateLimitWait(r) ELSE RETRY_DELAY

\* last_error set by the handler that caught e
LastErrorOf_AlwaysText(e) ==
    IF e.kind = "rate_limit" THEN <<"Error code: 429">> ELSE e.msg
LastErrorOf(e) == IF e.kind = "rate_limit" THEN <<"Rate limit exceeded">> ELSE e.msg

\* the message of the TranscriptionError raised after the loop
ExhaustedMessage(le) ==
    <<"Failed to transcribe audio after ", ToString(MAX_RETRIES), " attempts: ">> \o Str(le)

Call(stage, args) == [ev |-> "call", stage |-> stage, args |-> args]
Ret(stage, out) == [ev |-> "exit", stage |-> stage, out |-> out]

\* ------------------------------------------------------ diarization model
\* A time in seconds is a whole part and tenths: 65.5 is T(65, 5).
T(s, f) == [sec |-> s, tenth |-> f]
TimeLE(a, b) == a.sec < b.sec \/ (a.sec = b.sec /\ a.tenth <= b.tenth)

\* raw labels of the model, listed in the order of Python's string comparison
Labels == <<"SPEAKER_00", "SPEAKER_01", "SPEAKER_02">>
LabelSet == { Labels[i] : i \in 1..Len(Labels) }
Rank(l) == CHOOSE i \in 1..Len(Labels) : Labels[i] = l
LabelLess(a, b) == Rank(a) < Rank(b)

\* the turns (time spans) itertracks can yield
Turns == { [start |-> T(0, 0), end |-> T(2, 5)],
           [start |-> T(65, 5), end |-> T(70, 0)] }

\* itertracks(yield_label=True): (turn, _, speaker) in chronological order
Track == [turn : Turns, speaker : LabelSet]
TrackSeqs ==
    { tr \in UNION { [1..n -> Track] : n \in 0..MaxSegs } :
        \A i \in 1..Len(tr) - 1 : TimeLE(tr[i].turn.start, tr[i + 1].turn.start) }

PipelineErrors == { <<"Unsupported audio format">> }
LoadErrors == { <<"Could not download pipeline">> }
NoTokenMessage ==
    <<"HF_TOKEN environment variable not found. Please set it to your Hugging Face token to use pyannote.audio.">>

\* load_diarization_pipeline: token present or not, from_pretrained outcome
load_diarization_pipeline_NoTokenCheck(token, loaded) ==
    IF loaded.kind = "raise"
    THEN Raise("DiarizationError",
               <<"Failed to load diarization pipeline: ">> \o loaded.msg)
    ELSE loaded
load_diarization_pipeline(token, loaded) ==
    LET body == IF ~token THEN Raise("DiarizationError", NoTokenMessage)
                ELSE loaded
    IN  IF body.kind = "raise"
        THEN Raise("DiarizationError",
                   <<"Failed to load diarization pipeline: ">> \o body.msg)
        ELSE body

\* the outer except of diarize_audio
DiarizeExcept(r) ==
    IF r.kind = "raise"
    THEN Raise("DiarizationError", <<"Failed to diarize audio: ">> \o r.msg)
    ELSE r

\* segments = [{"start": turn.start, "end": turn.end, "speaker": speaker}, ...]
Segments(tr) ==
    [k \in 1..Len(tr) |->
        [start |-> tr[k].turn.start, end |-> tr[k].turn.end, speaker |-> tr[k].speaker]]

\* sorted(list(set(s["speaker"] for s in segments)))
SpeakerSet(segs) == { segs[k].speaker : k \in 1..Len(segs) }
Sorted_Reverse(S) ==
    [i \in 1..Cardinality(S) |->
        CHOOSE l \in S : Cardinality({ m \in S : LabelLess(l, m) }) = i - 1]
Sorted(S) ==
    [i \in 1..Cardinality(S) |->
        CHOOSE l \in S : Cardinality({ m \in S : LabelLess(m, l) }) = i - 1]

\* f"Speaker {i+1}", i the 0-based position
GenericName_ZeroBased(i) == "Speaker " \o ToString(i)
GenericName(i) == "Speaker " \o ToString(i + 1)

\* Python truthiness of speaker_names
Truthy(names) == names # None /\ Len(names.value) > 0

\* name_mapping built from unique_speakers
NameMapping_Generic(unique_speakers, names) ==
    [l \in { unique_speakers[j] : j \in 1..Len(unique_speakers) } |->
        GenericName((CHOOSE j \in 1..Len(unique_speakers) : unique_speakers[j] = l) - 1)]
NameMapping_AllLabels(unique_speakers, names) ==
    [l \in LabelSet |->
        LET i == Rank(l) - 1
        IN  IF Truthy(names) /\ i < Len(names.value)
            THEN names.value[i + 1]
            ELSE GenericName(i)]
NameMapping(unique_speakers, names) ==
    [l \in { unique_speakers[j] : j \in 1..Len(unique_speakers) } |->
        LET i == (CHOOSE j \in 1..Len(unique_speakers) : unique_speakers[j] = l) - 1
        IN  IF Truthy(names) /\ i < Len(names.value)
            THEN names.value[i + 1]
            ELSE GenericName(i)]

\* for segment in segments: segment["speaker"] = name_mapping[segment["speaker"]]
Relabel_Reversed(segs, name_mapping) ==
    [k \in 1..Len(segs) |->
        [segs[Len(segs) + 1 - k] EXCEPT !.speaker = name_mapping[@]]]
Relabel(segs, name_mapping) ==
    [k \in 1..Len(segs) |-> [segs[k] EXCEPT !.speaker = name_mapping[@]]]

\* the part of diarize_audio after the model has run
RelabelledSegments(tr, names) ==
    LET segments == Segments(tr)
        unique_speakers == Sorted(SpeakerSet(segments))
    IN  Relabel(segments, NameMapping(unique_speakers, names))

\* --------------------------------------------------------------- alignment
NOTE ==
    "[Note: This is a simplified diarization using timestamps only. For a more accurate result, please retry the process.]"

\* {n:02d}
Pad2_NoPad(n) == ToString(n)
Pad2(n) == IF n < 10 THEN "0" \o ToString(n) ELSE ToString(n)

\* f"{int(start_time // 60):02d}:{int(start_time % 60):02d}"
StartStr(t) == <<Pad2(t.sec \div 60), ":", Pad2(t.sec % 60)>>

\* the loop of create_fallback_diarized_transcript from segment k on
RECURSIVE FallbackLines_NoUpdate(_, _, _)
FallbackLines_NoUpdate(segs, k, current_speaker) ==
    IF k > Len(segs) THEN << >>
    ELSE LET speaker == segs[k].speaker
             start_str == StartStr(segs[k].start)
         IN  IF Some(speaker) # current_speaker
             THEN <<"\n[">> \o start_str \o <<"] ", speaker, ":">>
                  \o FallbackLines_NoUpdate(segs, k + 1, current_speaker)
             ELSE <<"\n[">> \o start_str \o <<"] ">>
                  \o FallbackLines_NoUpdate(segs, k + 1, current_speaker)
RECURSIVE FallbackLines(_, _, _)
FallbackLines(segs, k, current_speaker) ==
    IF k > Len(segs) THEN << >>
    ELSE LET speaker == segs[k].speaker
             start_str == StartStr(segs[k].start)
         IN  IF Some(speaker) # current_speaker
             THEN <<"\n[">> \o start_str \o <<"] ", speaker, ":">>
                  \o FallbackLines(segs, k + 1, Some(speaker))
             ELSE <<"\n[">> \o start_str \o <<"] ">>
                  \o FallbackLines(segs, k + 1, current_speaker)

create_fallback_diarized_transcript_WithText(text, segs) ==
    FallbackLines(segs, 1, None) \o <<"\n">> \o text \o <<"\n\n", NOTE>>
create_fallback_diarized_transcript(text, segs) ==
    FallbackLines(segs, 1, None) \o <<"\n\n", NOTE>>

\* what the chat completion call can do
Contents == { << >>, <<"Alice: hello world">> }
ChatOutcomes ==
    { [kind |-> "exception"], [kind |-> "no_choices"], [kind |-> "content_none"] }
    \cup { [kind |-> "content", content |-> c] : c \in Contents }

\* the try body: create(...), response.choices[0].message.content, the None test
AlignTry_EmptyForNone(o, text, segs) ==
    CASE o.kind = "exception" -> Raise("APIError", <<"Connection error">>)
      [] o.kind = "no_choices" -> Raise("IndexError", <<"list index out of range">>)
      [] o.kind = "content_none" -> Return(<< >>)
      [] OTHER -> Return(o.content)
AlignTry_FallbackOnEmpty(o, text, segs) ==
    CASE o.kind = "exception" -> Raise("APIError", <<"Connection error">>)
      [] o.kind = "no_choices" -> Raise("IndexError", <<"list index out of range">>)
      [] o.kind = "content_none" ->
            Return(create_fallback_diarized_transcript(text, segs))
      [] OTHER -> IF o.content = << >>
                  THEN Return(create_fallback_diarized_transcript(text, segs))
                  ELSE Return(o.content)
AlignTry(o, text, segs) ==
    CASE o.kind = "exception" -> Raise("APIError", <<"Connection error">>)
      [] o.kind = "no_choices" -> Raise("IndexError", <<"list index out of range">>)
      [] o.kind = "content_none" ->
            Return(create_fallback_diarized_transcript(text, segs))
      [] OTHER -> Return(o.content)

\* except Exception: return the fallback
AlignExcept_Narrow(r, text, segs) ==
    IF r.kind = "raise" /\ r.type = "APIError"
    THEN Return(create_fallback_diarized_transcript(text, segs))
    ELSE r
AlignExcept_Reraise(r, text, segs) ==
    IF r.kind = "raise"
    THEN Raise("AlignmentError", r.msg)
    ELSE r
AlignExcept(r, text, segs) ==
    IF r.kind = "raise"
    THEN Return(create_fallback_diarized_transcript(text, segs))
    ELSE r

align_transcript_with_diarization(o, text, segs) ==
    AlignExcept(AlignTry(o, text, segs), text, segs)

\* ------------------------------------------- two concurrent invocations
MaxConcSegs == 1      \* longest track list in the two-invocation model

Invocations == { 1, 2 }
AudioOf(p) == IF p = 1 THEN "session1.mp3" ELSE "session2.mp3"

\* the locals of one call of transcribe_and_diarize and of the functions it
\* calls, and the log of what the services answered to this call
Frame(p, names) ==
    [ pc |-> "t_loop", audio_path |-> AudioOf(p), speaker_names |-> names,
      retries |-> 0, last_error |-> None, exc |-> None,
      transcript |-> None, segments |-> << >>, name_mapping |-> << >>,
      attempts |-> << >>, tracks |-> Pending, chat |-> None, out |-> Pending ]

\* ------------------------------------------------------------------ Init
Names == { None, Some(<< >>), Some(<<"Speaker 2">>), Some(<<"Alice", "Bob">>) }

Init ==
    /\ pc = "run"
    /\ speaker_names \in Names
    /\ hf_token \in BOOLEAN
    /\ retries = 0
    /\ last_error = None
    /\ exc = None
    /\ file_open = FALSE
    /\ sleeping = 0
    /\ attempts = << >>
    /\ sleeps = << >>
    /\ loads = 0
    /\ trace = << >>
    /\ transcript = None
    /\ diarization_segments = None
    /\ t_out = Pending
    /\ d_out = Pending
    /\ a_out = Pending
    /\ chat = None
    /\ result = Pending
    /\ diarization = Pending
    /\ f_args = None
    /\ f_out = Pending
    /\ v_args = None
    /\ fs_exists = { "." }
    /\ fs_writable = { "." }
    /\ v_out = Pending
    /\ inv = [p \in Invocations |-> Frame(p, speaker_names)]
    /\ opens = 0
    /\ m_args = None
    /\ openai_key = FALSE
    /\ transcript_content = None
    /\ m_trace = << >>
    /\ exit_code = None

\* ------------------------------------------------------ transcribe_audio
\* transcribe_and_diarize, step 1: call transcribe_audio(audio_path)
RunTranscribe_TokenFirst ==
    /\ pc = "run"
    /\ IF hf_token
       THEN /\ trace' = Append(trace, Call("transcribe_audio", <<AUDIO>>))
            /\ pc' = "t_loop"
            /\ UNCHANGED result
       ELSE /\ result' = DiarizeExcept(load_diarization_pipeline(
                                          hf_token, Return("pipeline")))
            /\ pc' = "done"
            /\ UNCHANGED trace
    /\ retries' = 0
    /\ last_error' = None
    /\ UNCHANGED <<transcript, diarization_segments, speaker_names, hf_token,
                   exc, file_open, sleeping, attempts, sleeps, loads, t_out,
                   d_out, a_out, chat>>
    /\ UNCHANGED <<diarization, opens>>
    /\ UNCHANGED auxVars
RunTranscribe ==
    /\ pc = "run"
    /\ trace' = Append(trace, Call("transcribe_audio", <<AUDIO>>))
    /\ retries' = 0
    /\ last_error' = None
    /\ pc' = "t_loop"
    /\ UNCHANGED <<transcript, diarization_segments, speaker_names, hf_token, exc, file_open, sleeping, attempts,
                   sleeps, loads, t_out, d_out, a_out, chat, result>>
    /\ UNCHANGED <<diarization, opens>>
    /\ UNCHANGED auxVars

\* while retries < MAX_RETRIES: ... ; after the loop, raise
TLoop ==
    /\ pc = "t_loop"
    /\ IF LoopContinues(retries)
       THEN /\ pc' = "t_open"
            /\ UNCHANGED <<t_out, trace>>
       ELSE /\ t_out' = Raise("TranscriptionError", ExhaustedMessage(last_error))
            /\ trace' = Append(trace, Ret("transcribe_audio", t_out'))
            /\ pc' = "t_done"
    /\ UNCHANGED <<transcript, diarization_segments, speaker_names, hf_token, retries, last_error, exc, file_open,
                   sleeping, attempts, sleeps, loads, d_out, a_out, chat, result>>
    /\ UNCHANGED <<diarization, opens>>
    /\ UNCHANGED auxVars

\* with open(audio_path, "rb") as audio_file
TOpen ==
    /\ pc = "t_open"
    /\ opens' = opens + 1
    /\ \/ /\ file_open' = TRUE
          /\ pc' = "t_create"
          /\ UNCHANGED <<exc, attempts>>
       \/ /\ exc' = OpenError
          /\ attempts' = Append(attempts, OpenError)
          /\ pc' = "t_except"
          /\ UNCHANGED file_open
    /\ UNCHANGED <<transcript, diarization_segments, speaker_names, hf_token, retries, last_error, sleeping,
                   sleeps, loads, trace, t_out, d_out, a_out, chat, result>>
    /\ UNCHANGED diarization
    /\ UNCHANGED auxVars

\* what the body of the try does with the service's answer o, after the
\* with block has closed the file: return the text or raise
TryBody(o) ==
    CASE o.kind = "text" -> Return(o.text)
      [] o.kind = "none_text" ->
            Raise("TranscriptionError", <<"Transcription returned None text">>)
      [] o.kind = "rate_limit" -> Raise("RateLimitError", << >>)
      [] OTHER -> Raise("Exception", o.msg)

\* the except clause that catches the exception r raised in the try
Caught(r) ==
    IF r.type = "RateLimitError" THEN RateLimitError
    ELSE [kind |-> "error", msg |-> r.msg]

\* openai.audio.transcriptions.create(...) and the rest of the try body
TCreate_LeakOnError ==
    /\ pc = "t_create"
    /\ \E o \in ServiceOutcomes :
         /\ attempts' = Append(attempts, o)
         /\ LET r == TryBody(o) IN
            IF r.kind = "return"
            THEN /\ t_out' = r
                 /\ file_open' = FALSE
                 /\ trace' = Append(trace, Ret("transcribe_audio", r))
                 /\ pc' = "t_done"
                 /\ UNCHANGED exc
            ELSE /\ exc' = Caught(r)
                 /\ pc' = "t_except"
                 /\ UNCHANGED <<t_out, trace, file_open>>
    /\ UNCHANGED <<transcript, diarization_segments, speaker_names, hf_token,
                   retries, last_error, sleeping, sleeps, loads, d_out, a_out,
                   chat, result>>
    /\ UNCHANGED <<diarization, opens>>
    /\ UNCHANGED auxVars
TCreate ==
    /\ pc = "t_create"
    /\ \E o \in ServiceOutcomes :
         /\ attempts' = Append(attempts, o)
         /\ file_open' = FALSE
         /\ LET r == TryBody(o) IN
            IF r.kind = "return"
            THEN /\ t_out' = r
                 /\ trace' = Append(trace, Ret("transcribe_audio", r))
                 /\ pc' = "t_done"
                 /\ UNCHANGED exc
            ELSE /\ exc' = Caught(r)
                 /\ pc' = "t_except"
                 /\ UNCHANGED <<t_out, trace>>
    /\ UNCHANGED <<transcript, diarization_segments, speaker_names, hf_token, retries, last_error, sleeping,
                   sleeps, loads, d_out, a_out, chat, result>>
    /\ UNCHANGED <<diarization, opens>>
    /\ UNCHANGED auxVars

\* except ...: retries += 1; time.sleep(...)   (the sleep begins)
TExcept_NoIncrement ==
    /\ pc = "t_except"
    /\ retries' = retries
    /\ sleeping' = SleepFor(exc, retries + 1)
    /\ sleeps' = Append(sleeps, sleeping')
    /\ pc' = "t_sleep"
    /\ UNCHANGED <<transcript, diarization_segments, speaker_names, hf_token,
                   last_error, exc, file_open, attempts, loads, trace, t_out,
                   d_out, a_out, chat, result>>
    /\ UNCHANGED <<diarization, opens>>
    /\ UNCHANGED auxVars
TExcept ==
    /\ pc = "t_except"
    /\ retries' = retries + 1
    /\ sleeping' = SleepFor(exc, retries')
    /\ sleeps' = Append(sleeps, sleeping')
    /\ pc' = "t_sleep"
    /\ UNCHANGED <<transcript, diarization_segments, speaker_names, hf_token, last_error, exc, file_open, attempts,
                   loads, trace, t_out, d_out, a_out, chat, result>>
    /\ UNCHANGED <<diarization, opens>>
    /\ UNCHANGED auxVars

\* the sleep returns; last_error = ...; back to the loop test
TWake_KeepFirst ==
    /\ pc = "t_sleep"
    /\ sleeping' = 0
    /\ last_error' = IF last_error = None THEN Some(LastErrorOf(exc)) ELSE last_error
    /\ exc' = None
    /\ pc' = "t_loop"
    /\ UNCHANGED <<transcript, diarization_segments, speaker_names, hf_token,
                   retries, file_open, attempts, sleeps, loads, trace, t_out,
                   d_out, a_out, chat, result>>
    /\ UNCHANGED <<diarization, opens>>
    /\ UNCHANGED auxVars
TWake ==
    /\ pc = "t_sleep"
    /\ sleeping' = 0
    /\ last_error' = Some(LastErrorOf(exc))
    /\ exc' = None
    /\ pc' = "t_loop"
    /\ UNCHANGED <<transcript, diarization_segments, speaker_names, hf_token, retries, file_open, attempts, sleeps,
                   loads, trace, t_out, d_out, a_out, chat, result>>
    /\ UNCHANGED <<diarization, opens>>
    /\ UNCHANGED auxVars

\* transcribe_and_diarize: transcribe_audio raised, nothing catches it
RunRaiseT ==
    /\ pc = "t_done"
    /\ t_out.kind = "raise"
    /\ result' = t_out
    /\ pc' = "done"
    /\ UNCHANGED <<transcript, diarization_segments, speaker_names, hf_token, retries, last_error, exc, file_open,
                   sleeping, attempts, sleeps, loads, trace, t_out, d_out,
                   a_out, chat>>
    /\ UNCHANGED <<diarization, opens>>
    /\ UNCHANGED auxVars

\* ---------------------------------------------------------- diarize_audio
\* transcribe_and_diarize, step 2: transcript bound, call diarize_audio
RunDiarize_Skipped ==
    /\ pc = "t_done"
    /\ t_out.kind = "return"
    /\ transcript' = Some(t_out.value)
    /\ diarization_segments' = Some(<< >>)
    /\ trace' = Append(trace, Call("align_transcript_with_diarization",
                                   <<t_out.value, << >> >>))
    /\ pc' = "a_create"
    /\ UNCHANGED <<speaker_names, hf_token, retries, last_error, exc, file_open,
                   sleeping, attempts, sleeps, loads, t_out, d_out, a_out, chat,
                   result>>
    /\ UNCHANGED <<diarization, opens>>
    /\ UNCHANGED auxVars
RunDiarize ==
    /\ pc = "t_done"
    /\ t_out.kind = "return"
    /\ transcript' = Some(t_out.value)
    /\ trace' = Append(trace, Call("diarize_audio", <<AUDIO, speaker_names>>))
    /\ pc' = "d_load"
    /\ UNCHANGED <<diarization_segments, speaker_names, hf_token, retries,
                   last_error, exc, file_open, sleeping, attempts, sleeps, loads,
                   t_out, d_out, a_out, chat, result>>
    /\ UNCHANGED <<diarization, opens>>
    /\ UNCHANGED auxVars

\* pipeline = load_diarization_pipeline()
DLoad ==
    /\ pc = "d_load"
    /\ \E loaded \in { Return("pipeline") }
                     \cup { Raise("OSError", m) : m \in LoadErrors } :
         LET r == load_diarization_pipeline(hf_token, loaded) IN
         /\ loads' = IF hf_token THEN loads + 1 ELSE loads
         /\ IF r.kind = "return"
            THEN /\ pc' = "d_run"
                 /\ UNCHANGED <<d_out, trace>>
            ELSE /\ d_out' = DiarizeExcept(r)
                 /\ trace' = Append(trace, Ret("diarize_audio", d_out'))
                 /\ pc' = "d_done"
    /\ UNCHANGED <<transcript, diarization_segments, speaker_names, hf_token,
                   retries, last_error, exc, file_open, sleeping, attempts,
                   sleeps, t_out, a_out, chat, result>>
    /\ UNCHANGED <<diarization, opens>>
    /\ UNCHANGED auxVars

\* diarization = pipeline(audio_path); itertracks; re-labelling; return
DRun ==
    /\ pc = "d_run"
    /\ \E r \in { Raise("Exception", m) : m \in PipelineErrors }
                \cup { Return(tr) : tr \in TrackSeqs } :
         /\ diarization' = r
         /\ d_out' = IF r.kind = "raise" THEN DiarizeExcept(r)
                     ELSE Return(RelabelledSegments(r.value, speaker_names))
         /\ trace' = Append(trace, Ret("diarize_audio", d_out'))
    /\ pc' = "d_done"
    /\ UNCHANGED <<transcript, diarization_segments, speaker_names, hf_token,
                   retries, last_error, exc, file_open, sleeping, attempts,
                   sleeps, loads, t_out, a_out, chat, result>>
    /\ UNCHANGED opens
    /\ UNCHANGED auxVars

\* transcribe_and_diarize: diarize_audio raised, nothing catches it
RunRaiseD_Wrapped ==
    /\ pc = "d_done"
    /\ d_out.kind = "raise"
    /\ result' = Raise("Exception", d_out.msg)
    /\ pc' = "done"
    /\ UNCHANGED <<transcript, diarization_segments, speaker_names, hf_token,
                   retries, last_error, exc, file_open, sleeping, attempts,
                   sleeps, loads, trace, t_out, d_out, a_out, chat>>
    /\ UNCHANGED <<diarization, opens>>
    /\ UNCHANGED auxVars
RunRaiseD ==
    /\ pc = "d_done"
    /\ d_out.kind = "raise"
    /\ result' = d_out
    /\ pc' = "done"
    /\ UNCHANGED <<transcript, diarization_segments, speaker_names, hf_token,
                   retries, last_error, exc, file_open, sleeping, attempts,
                   sleeps, loads, trace, t_out, d_out, a_out, chat>>
    /\ UNCHANGED <<diarization, opens>>
    /\ UNCHANGED auxVars

\* ------------------------------------- align_transcript_with_diarization
\* transcribe_and_diarize, step 3: segments bound, call the alignment
RunAlign_NoSegments ==
    /\ pc = "d_done"
    /\ d_out.kind = "return"
    /\ diarization_segments' = Some(d_out.value)
    /\ trace' = Append(trace, Call("align_transcript_with_diarization",
                                   <<transcript.value, << >> >>))
    /\ pc' = "a_create"
    /\ UNCHANGED <<transcript, speaker_names, hf_token, retries, last_error, exc,
                   file_open, sleeping, attempts, sleeps, loads, t_out, d_out,
                   a_out, chat, result>>
    /\ UNCHANGED <<diarization, opens>>
    /\ UNCHANGED auxVars
RunAlign ==
    /\ pc = "d_done"
    /\ d_out.kind = "return"
    /\ diarization_segments' = Some(d_out.value)
    /\ trace' = Append(trace, Call("align_transcript_with_diarization",
                                   <<transcript.value, d_out.value>>))
    /\ pc' = "a_create"
    /\ UNCHANGED <<transcript, speaker_names, hf_token, retries, last_error, exc,
                   file_open, sleeping, attempts, sleeps, loads, t_out, d_out,
                   a_out, chat, result>>
    /\ UNCHANGED <<diarization, opens>>
    /\ UNCHANGED auxVars

\* openai.chat.completions.create(...) and the rest of the function
ACreate ==
    /\ pc = "a_create"
    /\ \E o \in ChatOutcomes :
         LET args == trace[Len(trace)].args IN
         /\ chat' = o
         /\ a_out' = align_transcript_with_diarization(o, args[1], args[2])
         /\ trace' = Append(trace, Ret("align_transcript_with_diarization", a_out'))
    /\ pc' = "a_done"
    /\ UNCHANGED <<transcript, diarization_segments, speaker_names, hf_token,
                   retries, last_error, exc, file_open, sleeping, attempts,
                   sleeps, loads, t_out, d_out, result>>
    /\ UNCHANGED <<diarization, opens>>
    /\ UNCHANGED auxVars

\* return diarized_transcript (or let an exception of the alignment through)
RunReturn ==
    /\ pc = "a_done"
    /\ result' = a_out
    /\ pc' = "done"
    /\ UNCHANGED <<transcript, diarization_segments, speaker_names, hf_token,
                   retries, last_error, exc, file_open, sleeping, attempts,
                   sleeps, loads, trace, t_out, d_out, a_out, chat>>
    /\ UNCHANGED <<diarization, opens>>
    /\ UNCHANGED auxVars

Next ==
    \/ RunTranscribe
    \/ TLoop
    \/ TOpen
    \/ TCreate
    \/ TExcept
    \/ TWake
    \/ RunRaiseT
    \/ RunDiarize
    \/ DLoad
    \/ DRun
    \/ RunRaiseD
    \/ RunAlign
    \/ ACreate
    \/ RunReturn

Spec == Init /\ [][Next]_vars

\* transcribe_audio alone, every service call and every sleep returning: the
\* single thread of control takes its next step whenever it has one
NextTranscribe ==
    \/ RunTranscribe
    \/ TLoop
    \/ TOpen
    \/ TCreate
    \/ TExcept
    \/ TWake

SpecTranscribe == Init /\ [][NextTranscribe]_vars /\ WF_vars(NextTranscribe)

\* ------------------------- create_fallback_diarized_transcript on its own
MaxFallbackSegs == 3   \* longest segment list handed to the fallback

FallbackStarts == { T(0, 0), T(65, 0), T(65, 5), T(6005, 0) }
FallbackSpeakers == { "Alice", "Bob" }
FallbackSegment ==
    { [start |-> t, end |-> T(t.sec + 2, t.tenth), speaker |-> sp] :
        t \in FallbackStarts, sp \in FallbackSpeakers }
FallbackSegments ==
    { sg \in UNION { [1..n -> FallbackSegment] : n \in 0..MaxFallbackSegs } :
        \A i \in 1..Len(sg) - 1 : TimeLE(sg[i].start, sg[i + 1].start) }

FallbackEnter ==
    /\ pc = "run"
    /\ \E text \in Texts, sg \in FallbackSegments :
         f_args' = [transcript |-> text, diarization_segments |-> sg]
    /\ pc' = "f_call"
    /\ UNCHANGED <<speaker_names, hf_token, retries, last_error, exc, file_open,
                   sleeping, attempts, sleeps, loads, trace, transcript,
                   diarization_segments, t_out, d_out, a_out, chat, result,
                   diarization, f_out>>
    /\ UNCHANGED valVars
    /\ UNCHANGED <<inv, opens>>
    /\ UNCHANGED cliVars

FallbackCall ==
    /\ pc = "f_call"
    /\ f_out' = Return(create_fallback_diarized_transcript(
                           f_args.transcript, f_args.diarization_segments))
    /\ pc' = "f_done"
    /\ UNCHANGED <<speaker_names, hf_token, retries, last_error, exc, file_open,
                   sleeping, attempts, sleeps, loads, trace, transcript,
                   diarization_segments, t_out, d_out, a_out, chat, result,
                   diarization, f_args>>
    /\ UNCHANGED valVars
    /\ UNCHANGED <<inv, opens>>
    /\ UNCHANGED cliVars

NextFallback ==
    \/ FallbackEnter
    \/ FallbackCall

SpecFallback == Init /\ [][NextFallback]_vars

\* ------------------------- summarize_rpg_session.py: validate_input_paths
AudioPaths == { None, Some(""), Some("in.mp3") }
TranscriptPaths == { None, Some(""), Some("in.txt") }
SummaryPaths == { "", "out.md", "out/summary.md" }
TranscriptOutputs == { None, Some(""), Some("tx/diarized.txt") }
Directories == { ".", "out", "tx" }
Files == { "in.mp3", "in.txt" }

\* os.path.dirname
Dirname(path) ==
    CASE path = "out/summary.md" -> "out"
      [] path = "tx/diarized.txt" -> "tx"
      [] OTHER -> ""
\* os.path.dirname(path) or "."
DirOf(path) == IF Dirname(path) = "" THEN "." ELSE Dirname(path)

\* truthiness of an Optional[str]: None and "" are falsy
TruthyPath(x) == x # None /\ x.value # ""

\* validate_input_paths against the file system (exists, writable)
validate_input_paths(summary_output, audio, transcript_arg, transcript_output, exists, writable) ==
    IF (audio = None /\ transcript_arg = None) \/ (audio # None /\ transcript_arg # None)
    THEN FALSE
    ELSE IF TruthyPath(audio) /\ audio.value \notin exists
    THEN FALSE
    ELSE IF TruthyPath(transcript_arg) /\ transcript_arg.value \notin exists
    THEN FALSE
    ELSE IF summary_output # "" /\ DirOf(summary_output) \notin exists
    THEN FALSE
    ELSE IF summary_output # "" /\ DirOf(summary_output) \notin writable
    THEN FALSE
    ELSE IF TruthyPath(transcript_output) /\ DirOf(transcript_output.value) \notin exists
    THEN FALSE
    ELSE IF TruthyPath(transcript_output) /\ DirOf(transcript_output.value) \notin writable
    THEN FALSE
    ELSE TRUE

\* a call meets some file system: the current directory exists, the empty
\* path never does, and only an existing directory can be writable
ValidateEnter ==
    /\ pc = "run"
    /\ \E a \in AudioPaths, t \in TranscriptPaths, so \in SummaryPaths,
          tout \in TranscriptOutputs :
         v_args' = [summary_output |-> so, audio |-> a, transcript |-> t,
                    transcript_output |-> tout]
    /\ \E ex \in SUBSET (Files \cup Directories) :
         /\ "." \in ex
         /\ fs_exists' = ex
         /\ \E wr \in SUBSET (ex \cap Directories) : fs_writable' = wr
    /\ pc' = "v_call"
    /\ UNCHANGED <<speaker_names, hf_token, retries, last_error, exc, file_open,
                   sleeping, attempts, sleeps, loads, trace, transcript,
                   diarization_segments, t_out, d_out, a_out, chat, result,
                   diarization, f_args, f_out, v_out, inv, opens>>
    /\ UNCHANGED cliVars

ValidateCall ==
    /\ pc = "v_call"
    /\ v_out' = Return(validate_input_paths(v_args.summary_output, v_args.audio,
                                            v_args.transcript, v_args.transcript_output,
                                            fs_exists, fs_writable))
    /\ pc' = "v_done"
    /\ UNCHANGED <<speaker_names, hf_token, retries, last_error, exc, file_open,
                   sleeping, attempts, sleeps, loads, trace, transcript,
                   diarization_segments, t_out, d_out, a_out, chat, result,
                   diarization, f_args, f_out, v_args, fs_exists, fs_writable, inv,
                   opens>>
    /\ UNCHANGED cliVars

NextValidate ==
    \/ ValidateEnter
    \/ ValidateCall

SpecValidate == Init /\ [][NextValidate]_vars

\* ---------------- two invocations of transcribe_and_diarize, interleaved
ConcOutcomes == { RateLimitError, [kind |-> "text", text |-> <<"hello world">>] }
ConcTracks == { tr \in TrackSeqs : Len(tr) <= MaxConcSegs }
ConcChat == { [kind |-> "exception"],
              [kind |-> "content", content |-> <<"Alice: hello world">>] }

\* invocation p runs one attempt of transcribe_audio, or leaves the loop
CAttempt_SharedRetries(p) ==
    /\ inv[p].pc = "t_loop"
    /\ IF LoopContinues(inv[p].retries)
       THEN \E o \in ConcOutcomes :
              LET r == TryBody(o) IN
              IF r.kind = "return"
              THEN inv' = [inv EXCEPT ![p].attempts = Append(@, o),
                                      ![p].transcript = Some(r.value),
                                      ![p].pc = "d_load"]
              ELSE inv' = [q \in Invocations |->
                             IF q = p
                             THEN [inv[q] EXCEPT !.attempts = Append(@, o),
                                                 !.retries = @ + 1,
                                                 !.exc = Caught(r),
                                                 !.pc = "t_sleep"]
                             ELSE [inv[q] EXCEPT !.retries = @ + 1]]
       ELSE inv' = [inv EXCEPT
                      ![p].out = Raise("TranscriptionError",
                                       ExhaustedMessage(inv[p].last_error)),
                      ![p].pc = "done"]
    /\ UNCHANGED <<pc, speaker_names, hf_token, retries, last_error, exc,
                   file_open, sleeping, attempts, sleeps, loads, trace,
                   transcript, diarization_segments, t_out, d_out, a_out, chat,
                   result, diarization, f_args, f_out>>
    /\ UNCHANGED valVars
    /\ UNCHANGED <<opens, cliVars>>
CAttempt(p) ==
    /\ inv[p].pc = "t_loop"
    /\ IF LoopContinues(inv[p].retries)
       THEN \E o \in ConcOutcomes :
              LET r == TryBody(o) IN
              IF r.kind = "return"
              THEN inv' = [inv EXCEPT ![p].attempts = Append(@, o),
                                      ![p].transcript = Some(r.value),
                                      ![p].pc = "d_load"]
              ELSE inv' = [inv EXCEPT ![p].attempts = Append(@, o),
                                      ![p].retries = @ + 1,
                                      ![p].exc = Caught(r),
                                      ![p].pc = "t_sleep"]
       ELSE inv' = [inv EXCEPT
                      ![p].out = Raise("TranscriptionError",
                                       ExhaustedMessage(inv[p].last_error)),
                      ![p].pc = "done"]
    /\ UNCHANGED <<pc, speaker_names, hf_token, retries, last_error, exc,
                   file_open, sleeping, attempts, sleeps, loads, trace,
                   transcript, diarization_segments, t_out, d_out, a_out, chat,
                   result, diarization, f_args, f_out>>
    /\ UNCHANGED valVars
    /\ UNCHANGED <<opens, cliVars>>

\* the sleep of invocation p returns; last_error = ...
CWake(p) ==
    /\ inv[p].pc = "t_sleep"
    /\ inv' = [inv EXCEPT ![p].last_error = Some(LastErrorOf(inv[p].exc)),
                          ![p].exc = None,
                          ![p].pc = "t_loop"]
    /\ UNCHANGED <<pc, speaker_names, hf_token, retries, last_error, exc,
                   file_open, sleeping, attempts, sleeps, loads, trace,
                   transcript, diarization_segments, t_out, d_out, a_out, chat,
                   result, diarization, f_args, f_out>>
    /\ UNCHANGED valVars
    /\ UNCHANGED <<opens, cliVars>>

\* diarize_audio of invocation p: load the pipeline, run it, build segments
CSegments(p) ==
    /\ inv[p].pc = "d_load"
    /\ LET r == load_diarization_pipeline(hf_token, Return("pipeline")) IN
       IF r.kind = "raise"
       THEN inv' = [inv EXCEPT ![p].out = DiarizeExcept(r), ![p].pc = "done"]
       ELSE \E tr \in ConcTracks :
              inv' = [inv EXCEPT ![p].tracks = Return(tr),
                                 ![p].segments = Segments(tr),
                                 ![p].pc = "d_map"]
    /\ UNCHANGED <<pc, speaker_names, hf_token, retries, last_error, exc,
                   file_open, sleeping, attempts, sleeps, loads, trace,
                   transcript, diarization_segments, t_out, d_out, a_out, chat,
                   result, diarization, f_args, f_out>>
    /\ UNCHANGED valVars
    /\ UNCHANGED <<opens, cliVars>>

\* unique_speakers and name_mapping of invocation p
CMapping(p) ==
    /\ inv[p].pc = "d_map"
    /\ inv' = [inv EXCEPT
                 ![p].name_mapping =
                     NameMapping(Sorted(SpeakerSet(inv[p].segments)),
                                 inv[p].speaker_names),
                 ![p].pc = "d_relabel"]
    /\ UNCHANGED <<pc, speaker_names, hf_token, retries, last_error, exc,
                   file_open, sleeping, attempts, sleeps, loads, trace,
                   transcript, diarization_segments, t_out, d_out, a_out, chat,
                   result, diarization, f_args, f_out>>
    /\ UNCHANGED valVars
    /\ UNCHANGED <<opens, cliVars>>

\* the re-labelling loop of invocation p; diarize_audio returns
CRelabel(p) ==
    /\ inv[p].pc = "d_relabel"
    /\ inv' = [inv EXCEPT
                 ![p].segments = Relabel(inv[p].segments, inv[p].name_mapping),
                 ![p].pc = "a_create"]
    /\ UNCHANGED <<pc, speaker_names, hf_token, retries, last_error, exc,
                   file_open, sleeping, attempts, sleeps, loads, trace,
                   transcript, diarization_segments, t_out, d_out, a_out, chat,
                   result, diarization, f_args, f_out>>
    /\ UNCHANGED valVars
    /\ UNCHANGED <<opens, cliVars>>

\* the alignment of invocation p; transcribe_and_diarize returns
CAlign(p) ==
    /\ inv[p].pc = "a_create"
    /\ \E o \in ConcChat :
         inv' = [inv EXCEPT
                   ![p].chat = o,
                   ![p].out = align_transcript_with_diarization(
                                  o, inv[p].transcript.value, inv[p].segments),
                   ![p].pc = "done"]
    /\ UNCHANGED <<pc, speaker_names, hf_token, retries, last_error, exc,
                   file_open, sleeping, attempts, sleeps, loads, trace,
                   transcript, diarization_segments, t_out, d_out, a_out, chat,
                   result, diarization, f_args, f_out>>
    /\ UNCHANGED valVars
    /\ UNCHANGED <<opens, cliVars>>

NextConcurrent ==
    \/ \E p \in Invocations : CAttempt(p)
    \/ \E p \in Invocations : CWake(p)
    \/ \E p \in Invocations : CSegments(p)
    \/ \E p \in Invocations : CMapping(p)
    \/ \E p \in Invocations : CRelabel(p)
    \/ \E p \in Invocations : CAlign(p)

SpecConcurrent == Init /\ [][NextConcurrent]_vars

\* ----------------------------------- summarize_rpg_session.py: main (CLI)
\* state of transcribe_and_diarize's steps and of the other entry points,
\* untouched by main, which sees the pipeline as one call
pipeVars == <<retries, last_error, exc, file_open, sleeping, attempts, sleeps,
              loads, trace, transcript, diarization_segments, t_out, d_out,
              a_out, chat, diarization, opens>>
sideVars == <<f_args, f_out, v_args, v_out, inv>>

\* transcribe_audio as a function of what the service answers to attempt 1, 2, 3
RECURSIVE TranscribeLoop(_, _, _, _)
TranscribeLoop(answers, k, r, le) ==
    IF ~LoopContinues(r)
    THEN Raise("TranscriptionError", ExhaustedMessage(le))
    ELSE LET res == TryBody(answers[k])
         IN  IF res.kind = "return" THEN res
             ELSE TranscribeLoop(answers, k + 1, r + 1,
                                 Some(LastErrorOf(Caught(res))))
transcribe_audio(answers) == TranscribeLoop(answers, 1, 0, None)

\* diarize_audio as a function of the token, the load and the model run
diarize_audio(token, loaded, ran, names) ==
    LET p == load_diarization_pipeline(token, loaded)
    IN  IF p.kind = "raise" THEN DiarizeExcept(p)
        ELSE IF ran.kind = "raise" THEN DiarizeExcept(ran)
        ELSE Return(RelabelledSegments(ran.value, names))

\* transcribe_and_diarize as a function of what its services do
transcribe_and_diarize(answers, token, loaded, ran, names, o) ==
    LET t == transcribe_audio(answers)
    IN  IF t.kind = "raise" THEN t
        ELSE LET d == diarize_audio(token, loaded, ran, names)
             IN  IF d.kind = "raise" THEN d
                 ELSE align_transcript_with_diarization(o, t.value, d.value)

\* what the services can do during a run of the CLI
CliAnswers == [1..MAX_RETRIES -> ConcOutcomes]
CliLoads == { Return("pipeline") } \cup { Raise("OSError", m) : m \in LoadErrors }
CliRuns == { Raise("Exception", m) : m \in PipelineErrors }
           \cup { Return(tr) : tr \in ConcTracks }
FileTexts == { <<"GM: welcome back">>, << >> }
CliExists == { { "." }, { ".", "in.mp3", "in.txt", "out", "tx" } }

\* speaker_name_list = speaker_names if speaker_names else None
speaker_name_list(names) == IF Truthy(names) THEN names ELSE None

Check(what) == [ev |-> "check", what |-> what]
Exit(code) == Some(code)

\* the command is invoked with some options, environment and file system
MainEnter ==
    /\ pc = "run"
    /\ \E a \in AudioPaths, t \in TranscriptPaths, so \in SummaryPaths,
          tout \in TranscriptOutputs :
         m_args' = [audio |-> a, transcript |-> t, summary_output |-> so,
                    transcript_output |-> tout]
    /\ openai_key' \in BOOLEAN
    /\ \E ex \in CliExists :
         /\ fs_exists' = ex
         /\ fs_writable' \in { ex \cap Directories, { "." } }
    /\ pc' = "m_both"
    /\ UNCHANGED <<speaker_names, hf_token, result, transcript_content, m_trace,
                   exit_code>>
    /\ UNCHANGED pipeVars
    /\ UNCHANGED sideVars

\* if audio is not None and transcript is not None: raise typer.BadParameter
MainBoth ==
    /\ pc = "m_both"
    /\ m_trace' = Append(m_trace, Check("both"))
    /\ IF m_args.audio # None /\ m_args.transcript # None
       THEN exit_code' = Exit(2) /\ pc' = "m_exit"
       ELSE pc' = "m_key" /\ UNCHANGED exit_code
    /\ UNCHANGED <<speaker_names, hf_token, result, transcript_content, m_args,
                   openai_key, fs_exists, fs_writable>>
    /\ UNCHANGED pipeVars
    /\ UNCHANGED sideVars

\* load_dotenv(); if "OPENAI_API_KEY" not in os.environ: sys.exit(1)
MainKey_Skipped ==
    /\ pc = "m_key"
    /\ m_trace' = Append(m_trace, Check("api_key"))
    /\ pc' = "m_validate"
    /\ UNCHANGED <<speaker_names, hf_token, result, transcript_content, m_args,
                   openai_key, fs_exists, fs_writable, exit_code>>
    /\ UNCHANGED pipeVars
    /\ UNCHANGED sideVars
MainKey ==
    /\ pc = "m_key"
    /\ m_trace' = Append(m_trace, Check("api_key"))
    /\ IF ~openai_key
       THEN exit_code' = Exit(1) /\ pc' = "m_exit"
       ELSE pc' = "m_validate" /\ UNCHANGED exit_code
    /\ UNCHANGED <<speaker_names, hf_token, result, transcript_content, m_args,
                   openai_key, fs_exists, fs_writable>>
    /\ UNCHANGED pipeVars
    /\ UNCHANGED sideVars

\* if not validate_input_paths(...): sys.exit(1); then: if audio: ... else: ...
MainValidate ==
    /\ pc = "m_validate"
    /\ m_trace' = Append(m_trace, Check("paths"))
    /\ IF ~validate_input_paths(m_args.summary_output, m_args.audio,
                                m_args.transcript, m_args.transcript_output,
                                fs_exists, fs_writable)
       THEN exit_code' = Exit(1) /\ pc' = "m_exit"
       ELSE /\ pc' = IF TruthyPath(m_args.audio) THEN "m_pipeline" ELSE "m_read"
            /\ UNCHANGED exit_code
    /\ UNCHANGED <<speaker_names, hf_token, result, transcript_content, m_args,
                   openai_key, fs_exists, fs_writable>>
    /\ UNCHANGED pipeVars
    /\ UNCHANGED sideVars

\* transcript_content = transcribe_and_diarize(audio, speaker_name_list);
\* except (TranscriptionError, DiarizationError): sys.exit(1)
MainPipeline_IgnoreError ==
    /\ pc = "m_pipeline"
    /\ m_trace' = Append(m_trace, Call("transcribe_and_diarize",
                             <<m_args.audio.value, speaker_name_list(speaker_names)>>))
    /\ \E answers \in CliAnswers, loaded \in CliLoads, ran \in CliRuns,
          o \in ConcChat :
         /\ result' = transcribe_and_diarize(answers, hf_token, loaded, ran,
                                            speaker_name_list(speaker_names), o)
         /\ transcript_content' =
                IF result'.kind = "raise" THEN Some(<< >>) ELSE Some(result'.value)
         /\ pc' = "m_save"
         /\ UNCHANGED exit_code
    /\ UNCHANGED <<speaker_names, hf_token, m_args, openai_key, fs_exists,
                   fs_writable>>
    /\ UNCHANGED pipeVars
    /\ UNCHANGED sideVars
MainPipeline ==
    /\ pc = "m_pipeline"
    /\ m_trace' = Append(m_trace, Call("transcribe_and_diarize",
                             <<m_args.audio.value, speaker_name_list(speaker_names)>>))
    /\ \E answers \in CliAnswers, loaded \in CliLoads, ran \in CliRuns,
          o \in ConcChat :
         /\ result' = transcribe_and_diarize(answers, hf_token, loaded, ran,
                                            speaker_name_list(speaker_names), o)
         /\ IF result'.kind = "raise"
            THEN /\ exit_code' = Exit(1)
                 /\ pc' = "m_exit"
                 /\ UNCHANGED transcript_content
            ELSE /\ transcript_content' = Some(result'.value)
                 /\ pc' = "m_save"
                 /\ UNCHANGED exit_code
    /\ UNCHANGED <<speaker_names, hf_token, m_args, openai_key, fs_exists,
                   fs_writable>>
    /\ UNCHANGED pipeVars
    /\ UNCHANGED sideVars

\* if transcript_output: with open(transcript_output, "w") as f: f.write(...)
\* an OSError of open or write is not caught and ends the process
MainSave ==
    /\ pc = "m_save"
    /\ IF TruthyPath(m_args.transcript_output)
       THEN \/ /\ m_trace' = Append(m_trace,
                      [ev |-> "write_transcript",
                       path |-> m_args.transcript_output.value,
                       content |-> transcript_content.value])
               /\ pc' = "m_summary"
               /\ UNCHANGED exit_code
            \/ /\ exit_code' = Exit(1)
               /\ pc' = "m_exit"
               /\ UNCHANGED m_trace
       ELSE /\ pc' = "m_summary"
            /\ UNCHANGED <<m_trace, exit_code>>
    /\ UNCHANGED <<speaker_names, hf_token, result, transcript_content, m_args,
                   openai_key, fs_exists, fs_writable>>
    /\ UNCHANGED pipeVars
    /\ UNCHANGED sideVars

\* else: with open(transcript, "r") as f: transcript_content = f.read();
\* except Exception: sys.exit(1)     (open(None) and open("") raise)
MainRead_SavesCopy ==
    /\ pc = "m_read"
    /\ \/ /\ TruthyPath(m_args.transcript)
          /\ \E text \in FileTexts :
               /\ transcript_content' = Some(text)
               /\ m_trace' =
                    IF TruthyPath(m_args.transcript_output)
                    THEN m_trace \o
                         << [ev |-> "read_transcript",
                             path |-> m_args.transcript.value],
                            [ev |-> "write_transcript",
                             path |-> m_args.transcript_output.value,
                             content |-> text] >>
                    ELSE Append(m_trace, [ev |-> "read_transcript",
                                          path |-> m_args.transcript.value])
          /\ pc' = "m_summary"
          /\ UNCHANGED exit_code
       \/ /\ exit_code' = Exit(1)
          /\ pc' = "m_exit"
          /\ UNCHANGED <<transcript_content, m_trace>>
    /\ UNCHANGED <<speaker_names, hf_token, result, m_args, openai_key,
                   fs_exists, fs_writable>>
    /\ UNCHANGED pipeVars
    /\ UNCHANGED sideVars
MainRead ==
    /\ pc = "m_read"
    /\ \/ /\ TruthyPath(m_args.transcript)
          /\ \E text \in FileTexts : transcript_content' = Some(text)
          /\ m_trace' = Append(m_trace, [ev |-> "read_transcript",
                                         path |-> m_args.transcript.value])
          /\ pc' = "m_summary"
          /\ UNCHANGED exit_code
       \/ /\ exit_code' = Exit(1)
          /\ pc' = "m_exit"
          /\ UNCHANGED <<transcript_content, m_trace>>
    /\ UNCHANGED <<speaker_names, hf_token, result, m_args, openai_key,
                   fs_exists, fs_writable>>
    /\ UNCHANGED pipeVars
    /\ UNCHANGED sideVars

\* summary_text = f"..."; with open(summary_output, "w") as f: f.write(...);
\* except Exception: sys.exit(1); the command returns (exit status 0)
MainSummary ==
    /\ pc = "m_summary"
    /\ \/ /\ m_args.summary_output # ""
          /\ m_trace' = Append(m_trace,
                 [ev |-> "write_summary", path |-> m_args.summary_output,
                  transcript_content |-> transcript_content.value])
          /\ exit_code' = Exit(0)
       \/ /\ exit_code' = Exit(1)
          /\ UNCHANGED m_trace
    /\ pc' = "m_exit"
    /\ UNCHANGED <<speaker_names, hf_token, result, transcript_content, m_args,
                   openai_key, fs_exists, fs_writable>>
    /\ UNCHANGED pipeVars
    /\ UNCHANGED sideVars

NextCli ==
    \/ MainEnter
    \/ MainBoth
    \/ MainKey
    \/ MainValidate
    \/ MainPipeline
    \/ MainSave
    \/ MainRead
    \/ MainSummary

SpecCli == Init /\ [][NextCli]_vars

\* =================================================================== claims
IsString(v) == v \in Seq(STRING)
Contains(msg, piece) == \E i \in 1..Len(msg) : msg[i] = piece
Last(s) == s[Len(s)]
AllRateLimited == \A i \in 1..Len(attempts) : attempts[i].kind = "rate_limit"
Failed(o) == o.kind # "text"

\* C1: when every attempt of transcribe_audio meets the rate-limit condition,
\* the call ends after exactly 3 attempts with a TranscriptionError whose
\* message contains "Rate limit exceeded".
C1_RateLimitExhausted ==
    /\ AllRateLimited => Len(attempts) <= 3
    /\ (t_out # Pending /\ AllRateLimited) =>
          /\ Len(attempts) = 3
          /\ t_out.kind = "raise"
          /\ t_out.type = "TranscriptionError"
          /\ Contains(t_out.msg, "Rate limit exceeded")
C1_Witness ==
    /\ t_out # Pending
    /\ Len(attempts) = 3
    /\ AllRateLimited

\* C2: transcribe_audio makes at most 3 attempts, returns the text of the
\* first successful attempt without a further attempt, and raises
\* TranscriptionError exactly when the first 3 attempts all fail.
C2_AttemptBudget ==
    /\ Len(attempts) <= 3
    /\ \A i \in 1..Len(attempts) :
          ~Failed(attempts[i]) =>
              /\ i = Len(attempts)
              /\ t_out = Return(attempts[i].text)
    /\ t_out # Pending =>
          /\ t_out.kind = "raise" <=>
                (Len(attempts) = 3 /\ \A i \in 1..3 : Failed(attempts[i]))
          /\ t_out.kind = "raise" => t_out.type = "TranscriptionError"
          /\ t_out.kind = "return" => ~Failed(Last(attempts))
C2_Witness ==
    /\ t_out.kind = "return"
    /\ Len(attempts) = 3
    /\ attempts[1].kind = "rate_limit"
    /\ attempts[2].kind = "error"

\* C3: transcribe_audio never returns an empty string; an answer whose text
\* is empty or None is a failed attempt that is retried.
C3_NeverReturnsEmpty ==
    /\ t_out.kind = "return" => t_out.value # << >>
    /\ \A i \in 1..Len(attempts) :
          (attempts[i].kind = "text" /\ attempts[i].text = << >>) =>
              t_out.kind # "return"

\* C4: the TranscriptionError raised after the last attempt ends with the
\* reason of the last failed attempt: "Rate limit exceeded" for a rate-limit
\* failure, otherwise the text of that attempt's exception.
C4_LastReason ==
    t_out.kind = "raise" =>
        LET o == Last(attempts) IN
        /\ Len(t_out.msg) = 4
        /\ t_out.msg[4] =
              CASE o.kind = "rate_limit" -> "Rate limit exceeded"
                [] o.kind = "none_text" -> "Transcription returned None text"
                [] OTHER -> o.msg[1]
C4_Witness ==
    /\ t_out.kind = "raise"
    /\ attempts[1].kind = "rate_limit"
    /\ attempts[2].kind = "error"
    /\ attempts[3].kind = "error"
    /\ t_out.msg[4] = "Connection error"

\* C5: the i-th sleep follows the i-th failed attempt and lasts 2 * 2^i
\* seconds after a rate-limit failure (so it doubles from one failed attempt
\* to the next) and 2 seconds after any other failure.
C5_Backoff ==
    /\ Len(sleeps) <= Len(attempts)
    /\ \A i \in 1..Len(sleeps) :
          sleeps[i] = IF attempts[i].kind = "rate_limit" THEN 2 * Pow2(i) ELSE 2
    /\ \A i \in 1..Len(sleeps) - 1 :
          (attempts[i].kind = "rate_limit" /\ attempts[i + 1].kind = "rate_limit")
              => sleeps[i + 1] = 2 * sleeps[i]
    /\ sleeping # 0 => sleeping = Last(sleeps)
C5_Witness ==
    /\ sleeps = <<4, 2, 16>>
    /\ attempts[2].kind = "error"

\* C6: the stages are invoked one after the other, at most once each, in the
\* order transcription, diarization, alignment; a stage is called only after
\* the previous one has returned.
StageOrder ==
    <<"transcribe_audio", "diarize_audio", "align_transcript_with_diarization">>
C6_Sequential ==
    /\ Len(trace) <= 6
    /\ \A i \in 1..Len(trace) :
          /\ trace[i].stage = StageOrder[(i + 1) \div 2]
          /\ trace[i].ev = IF i % 2 = 1 THEN "call" ELSE "exit"
          /\ (i % 2 = 1 /\ i > 1) => trace[i - 1].out.kind = "return"
C6_Witness ==
    /\ Len(trace) = 6
    /\ pc = "done"

\* C7: the error of the first stage that raises reaches the caller unchanged
\* and no later stage is invoked; no value is returned.
Called(stage) == \E i \in 1..Len(trace) : trace[i] .ev = "call" /\ trace[i].stage = stage
C7_Propagation ==
    /\ t_out.kind = "raise" =>
          /\ t_out.type = "TranscriptionError"
          /\ ~Called("diarize_audio")
          /\ ~Called("align_transcript_with_diarization")
          /\ loads = 0 /\ chat = None
          /\ pc = "done" => result = t_out
          /\ result.kind # "return"
    /\ d_out.kind = "raise" =>
          /\ d_out.type = "DiarizationError"
          /\ ~Called("align_transcript_with_diarization")
          /\ chat = None
          /\ pc = "done" => result = d_out
          /\ result.kind # "return"
C7_Witness ==
    /\ pc = "done"
    /\ d_out.kind = "raise"
    /\ result.kind = "raise"

\* C8: transcribe_and_diarize ends with a string, a TranscriptionError or a
\* DiarizationError; once transcription and diarization have succeeded it
\* returns a string whatever the alignment service does.
C8_Outcomes ==
    pc = "done" =>
        /\ \/ result.kind = "return" /\ IsString(result.value)
           \/ /\ result.kind = "raise"
              /\ result.type \in { "TranscriptionError", "DiarizationError" }
        /\ (t_out.kind = "return" /\ d_out.kind = "return") =>
              result.kind = "return"
C8_Witness ==
    /\ pc = "done"
    /\ chat.kind = "exception"
    /\ result.kind = "return"

\* C9: align_transcript_with_diarization returns a string for every outcome
\* of the service call and never raises.
C9_AlignNeverRaises ==
    a_out # Pending =>
        /\ a_out.kind = "return"
        /\ IsString(a_out.value)
C9_Witness ==
    /\ a_out # Pending
    /\ chat.kind = "no_choices"
    /\ Len(diarization_segments.value) = 2

\* C10: when the service call raises or the response has no content, the
\* result is the fallback text for the same segments and ends with the note.
C10_FallbackOnFailure ==
    (a_out # Pending /\ chat.kind \in { "exception", "no_choices", "content_none" }) =>
        /\ a_out.kind = "return"
        /\ a_out.value =
              create_fallback_diarized_transcript(transcript.value,
                                                  diarization_segments.value)
        /\ Last(a_out.value) =
              "[Note: This is a simplified diarization using timestamps only. For a more accurate result, please retry the process.]"
C10_Witness ==
    /\ a_out # Pending
    /\ chat.kind = "content_none"
    /\ Len(a_out.value) > 2

\* ------------------------------------------------------- diarize_audio
\* the raw labels the model yielded and the speakers diarize_audio returned
RawLabels == [k \in 1..Len(diarization.value) |-> diarization.value[k].speaker]
Speakers == [k \in 1..Len(d_out.value) |-> d_out.value[k].speaker]
Diarized == d_out.kind = "return" /\ diarization.kind = "return"
\* 0-based position of label l among the unique raw labels sorted by value
PositionOf(l) ==
    Cardinality({ m \in { RawLabels[k] : k \in 1..Len(RawLabels) } : LabelLess(m, l) })
SuppliedNames == IF speaker_names = None THEN << >> ELSE speaker_names.value

C12_GenericNames ==
    (Diarized /\ Len(SuppliedNames) = 0) =>
        /\ Len(Speakers) = Len(RawLabels)
        /\ \A k \in 1..Len(RawLabels) :
              Speakers[k] = "Speaker " \o ToString(PositionOf(RawLabels[k]) + 1)
        /\ RawLabels = <<"SPEAKER_00", "SPEAKER_01">>
              => Speakers = <<"Speaker 1", "Speaker 2">>
C12_Witness ==
    /\ Diarized
    /\ speaker_names = Some(<< >>)
    /\ RawLabels = <<"SPEAKER_01", "SPEAKER_00", "SPEAKER_01">>
    /\ Speakers = <<"Speaker 2", "Speaker 1", "Speaker 2">>

\* C13: re-labelling keeps the number, the order and the time spans of the
\* segments the model yielded, so the sequence stays sorted by start.
C13_RelabelFrame ==
    Diarized =>
        /\ Len(d_out.value) = Len(diarization.value)
        /\ \A k \in 1..Len(d_out.value) :
              /\ d_out.value[k].start = diarization.value[k].turn.start
              /\ d_out.value[k].end = diarization.value[k].turn.end
        /\ \A k \in 1..Len(d_out.value) - 1 :
              TimeLE(d_out.value[k].start, d_out.value[k + 1].start)
C13_Witness ==
    /\ Diarized
    /\ SuppliedNames = <<"Alice", "Bob">>
    /\ Len(d_out.value) = 3
    /\ d_out.value[1].start # d_out.value[3].start
    /\ Speakers[1] # Speakers[3]

\* C14: a missing HF_TOKEN (loader and model never invoked), a failed model
\* load and an exception of the model run all end diarize_audio with a
\* DiarizationError; it returns only the complete segment list.
C14_DiarizationErrors ==
    d_out # Pending =>
        /\ ~hf_token =>
              /\ d_out.kind = "raise"
              /\ loads = 0
              /\ diarization = Pending
        /\ (hf_token /\ diarization = Pending) =>
              /\ d_out.kind = "raise"
              /\ loads = 1
        /\ diarization.kind = "raise" => d_out.kind = "raise"
        /\ d_out.kind = "raise" => d_out.type = "DiarizationError"
        /\ d_out.kind = "return" =>
              /\ diarization.kind = "return"
              /\ Len(d_out.value) = Len(diarization.value)
C14_Witness ==
    /\ d_out.kind = "raise"
    /\ ~hf_token
    /\ pc = "done"

\* ------------------------------- create_fallback_diarized_transcript
FbSegs == f_args.diarization_segments
FbOut == f_out.value
\* a fallback line begins with the piece "\n["; the k-th one belongs to segment k
LineStarts == { i \in 1..Len(FbOut) : FbOut[i] = "\n[" }
SegOf(i) == Cardinality({ j \in LineStarts : j <= i })
SpeakerChanges(segs, k) == k = 1 \/ segs[k].speaker # segs[k - 1].speaker
\* the pieces after the time stamp of the line at i, up to the next line or the note
LineTail(i) ==
    LET stop == CHOOSE j \in (i + 1)..Len(FbOut) :
                    /\ FbOut[j] \in { "\n[", "\n\n" }
                    /\ \A h \in (i + 1)..(j - 1) : FbOut[h] \notin { "\n[", "\n\n" }
    IN  SubSeq(FbOut, i + 4, stop - 1)

\* C15: the fallback writes one line per segment, in order: "[MM:SS] speaker:"
\* when the speaker differs from the previous segment's (always for the first
\* segment), "[MM:SS] " otherwise; without segments only the note is written.
C15_OneLinePerSegment ==
    f_out # Pending =>
        /\ Cardinality(LineStarts) = Len(FbSegs)
        /\ \A i \in LineStarts :
              LineTail(i) = IF SpeakerChanges(FbSegs, SegOf(i))
                            THEN <<"] ", FbSegs[SegOf(i)].speaker, ":">>
                            ELSE <<"] ">>
        /\ SubSeq(FbOut, Len(FbOut) - 1, Len(FbOut)) = <<"\n\n", NOTE>>
        /\ Len(FbSegs) > 0 => FbOut[1] = "\n["
        /\ Len(FbSegs) = 0 => FbOut = <<"\n\n", NOTE>>
C15_Witness ==
    /\ f_out # Pending
    /\ Len(FbSegs) = 3
    /\ FbSegs[1].speaker = "Alice"
    /\ FbSegs[2].speaker = "Alice"
    /\ FbSegs[3].speaker = "Bob"

Digit(d) == <<"0", "1", "2", "3", "4", "5", "6", "7", "8", "9">>[d + 1]
RECURSIVE Decimal(_)
Decimal(n) == IF n < 10 THEN Digit(n) ELSE Decimal(n \div 10) \o Digit(n % 10)
TwoDigits(n) == Digit(n \div 10) \o Digit(n % 10)

\* C16 as stated: every line carries a two-digit minute field equal to
\* floor(start / 60) and a two-digit second field equal to floor(start mod 60).
C16_TwoDigitFields ==
    f_out # Pending =>
        \A i \in LineStarts :
            LET t == FbSegs[SegOf(i)].start IN
            /\ t.sec \div 60 <= 99
            /\ FbOut[i + 1] = TwoDigits(t.sec \div 60)
            /\ FbOut[i + 2] = ":"
            /\ FbOut[i + 3] = TwoDigits(t.sec % 60)

\* C16 amended: the minute field is floor(start / 60) in decimal, padded with
\* a zero to two digits when below 10 and three or more digits from 6000 s on;
\* the second field is the two digits of floor(start mod 60), in 00..59;
\* tenths of a second never show (65.0 and 65.5 both give 01:05).
C16_MinuteFieldAtLeastTwoDigits ==
    f_out # Pending =>
        \A i \in LineStarts :
            LET t == FbSegs[SegOf(i)].start
                m == t.sec \div 60
            IN  /\ FbOut[i + 1] = IF m < 10 THEN "0" \o Decimal(m) ELSE Decimal(m)
                /\ FbOut[i + 2] = ":"
                /\ FbOut[i + 3] = TwoDigits(t.sec % 60)
                /\ t.sec % 60 \in 0..59
                /\ t.sec = 65 => <<FbOut[i + 1], FbOut[i + 3]>> = <<"01", "05">>
                /\ t.sec = 6005 => <<FbOut[i + 1], FbOut[i + 3]>> = <<"100", "05">>
C16_Witness ==
    /\ f_out # Pending
    /\ Len(FbSegs) = 3
    /\ FbSegs[1].start = T(65, 0)
    /\ FbSegs[2].start = T(65, 5)
    /\ FbSegs[3].start = T(6005, 0)
    /\ FbOut[2] = "01" /\ FbOut[4] = "05"

\* -------------------------------------------- transcribe_and_diarize, data
\* C17: transcription gets the audio path, diarization the same path and the
\* caller's names, alignment the returned text and the returned segments,
\* and the caller gets what alignment returned.
C17_DataFlow ==
    /\ Len(trace) >= 1 => trace[1] = Call("transcribe_audio", <<AUDIO>>)
    /\ Len(trace) >= 3 =>
          trace[3] = Call("diarize_audio", <<AUDIO, speaker_names>>)
    /\ Len(trace) >= 5 =>
          /\ trace[5].stage = "align_transcript_with_diarization"
          /\ trace[5].args = <<trace[2].out.value, trace[4].out.value>>
          /\ trace[5].args = <<t_out.value, d_out.value>>
    /\ (pc = "done" /\ Len(trace) = 6) =>
          /\ result = trace[6].out
          /\ result = a_out
C17_Witness ==
    /\ pc = "done"
    /\ result.kind = "return"
    /\ chat.kind = "content"
    /\ speaker_names = Some(<<"Alice", "Bob">>)
    /\ Len(d_out.value) = 3
    /\ t_out.value = <<"hello world">>

HasSpeakerLine(text, name) ==
    \E i \in 1..Len(text) - 6 :
        /\ text[i] = "\n["
        /\ text[i + 2] = ":"
        /\ SubSeq(text, i + 4, i + 6) = <<"] ", name, ":">>

\* C18: names [Alice, Bob], a successful transcription, two segments with two
\* distinct raw labels and an unreachable alignment service give the fallback
\* text with a speaker line for Alice, one for Bob, and the note at the end.
C18_EndToEndFallback ==
    ( /\ pc = "done"
      /\ speaker_names = Some(<<"Alice", "Bob">>)
      /\ t_out.kind = "return"
      /\ diarization.kind = "return"
      /\ Len(diarization.value) = 2
      /\ diarization.value[1].speaker # diarization.value[2].speaker
      /\ chat.kind = "exception" ) =>
        /\ result.kind = "return"
        /\ Len(result.value) = 16
        /\ HasSpeakerLine(result.value, "Alice")
        /\ HasSpeakerLine(result.value, "Bob")
        /\ Last(result.value) =
              "[Note: This is a simplified diarization using timestamps only. For a more accurate result, please retry the process.]"
C18_Witness ==
    /\ pc = "done"
    /\ speaker_names = Some(<<"Alice", "Bob">>)
    /\ t_out = Return(<<"hello world">>)
    /\ diarization.kind = "return"
    /\ Len(diarization.value) = 2
    /\ diarization.value[1].speaker = "SPEAKER_01"
    /\ diarization.value[2].speaker = "SPEAKER_00"
    /\ chat.kind = "exception"
    /\ result.kind = "return"
    /\ result.value[6] = "Bob"

\* ------------------------------------------------- validate_input_paths
Given(x) == x # None
PathExists(path) == path # "" /\ path \in fs_exists
DirUsable(path) == DirOf(path) \in fs_exists /\ DirOf(path) \in fs_writable

\* C20: validate_input_paths returns True exactly when one of audio and
\* transcript is given, that path exists, the directory of the summary output
\* exists and is writable, and so does the directory of a given diarized output.
C20_ValidateIff ==
    v_out # Pending =>
        ( v_out.value = TRUE <=>
            /\ Given(v_args.audio) # Given(v_args.transcript)
            /\ Given(v_args.audio) => PathExists(v_args.audio.value)
            /\ Given(v_args.transcript) => PathExists(v_args.transcript.value)
            /\ DirUsable(v_args.summary_output)
            /\ Given(v_args.transcript_output) =>
                  DirUsable(v_args.transcript_output.value) )

\* ------------------------------------------- two concurrent invocations
\* what transcribe_audio does, run alone, with the answers atts from attempt k on
RECURSIVE SoloTranscribe(_, _, _, _)
SoloTranscribe(atts, k, r, le) ==
    IF r >= 3 THEN Raise("TranscriptionError", ExhaustedMessage(le))
    ELSE IF k > Len(atts) THEN Pending
    ELSE IF atts[k].kind = "text" THEN Return(atts[k].text)
    ELSE SoloTranscribe(atts, k + 1, r + 1,
                        Some(IF atts[k].kind = "rate_limit"
                             THEN <<"Rate limit exceeded">> ELSE atts[k].msg))

\* the outcome an invocation has alone, given the answers its frame f logged
SoloOutcome(f) ==
    LET t == SoloTranscribe(f.attempts, 1, 0, None) IN
    IF t.kind # "return" THEN t
    ELSE IF ~hf_token
    THEN Raise("DiarizationError",
               <<"Failed to diarize audio: ", "Failed to load diarization pipeline: ">>
               \o NoTokenMessage)
    ELSE IF f.tracks = Pending \/ f.chat = None THEN Pending
    ELSE align_transcript_with_diarization(
             f.chat, t.value, RelabelledSegments(f.tracks.value, f.speaker_names))

\* a step changes the frame of one invocation only
OneFrameChanges ==
    \A p \in Invocations : \A q \in Invocations \ { p } :
        inv'[p] # inv[p] => inv'[q] = inv[q]

\* C19: two invocations on different audio files, interleaved in any way, do
\* not interfere: a step of one leaves the other's retry counter, last error,
\* segment list and name mapping alone, and each finishes with the outcome it
\* has alone against the same service answers.
C19_NoInterference ==
    /\ [](\A p \in Invocations :
            inv[p].pc = "done" => inv[p].out = SoloOutcome(inv[p]))
    /\ [][OneFrameChanges]_vars
C19_Witness ==
    /\ inv[1].pc = "done"
    /\ inv[1].out.kind = "raise"
    /\ inv[1].out.type = "TranscriptionError"
    /\ inv[2].pc = "done"
    /\ inv[2].out.kind = "return"
    /\ Len(inv[2].attempts) = 2
    /\ Len(inv[2].segments) = 1
    /\ inv[2].chat.kind = "exception"

\* ------------------------------------------- transcribe_audio, the loop
FailedAttempts == Cardinality({ i \in 1..Len(attempts) : Failed(attempts[i]) })

\* C23: with every service call and every sleep returning, transcribe_audio
\* terminates, with a text or with a TranscriptionError; every failed attempt
\* increases the attempt counter by one and the loop ends when it reaches 3.
C23_Terminates ==
    /\ <>(t_out # Pending)
    /\ [][pc = "t_except" => retries' = retries + 1]_vars
    /\ [][retries' >= retries]_vars
    /\ [](retries <= 3)
    /\ [](retries = FailedAttempts - (IF pc = "t_except" THEN 1 ELSE 0))
    /\ [](pc \in { "t_open", "t_create" } => retries < 3)
    /\ [](t_out # Pending =>
            \/ t_out.kind = "return" /\ IsString(t_out.value)
            \/ /\ t_out.kind = "raise"
               /\ t_out.type = "TranscriptionError"
               /\ retries = 3)
C23_Witness ==
    /\ t_out.kind = "raise"
    /\ retries = 3
    /\ attempts[1].kind = "rate_limit"
    /\ attempts[2] = OpenError
    /\ attempts[3].kind = "none_text"

\* C24: every wait of transcribe_audio is followed by another attempt, so
\* there is no wait after the failed attempt that exhausts the budget and a
\* call that fails 3 times has waited exactly twice when it raises.
C24_SleepThenRetry ==
    /\ t_out # Pending => Len(sleeps) < Len(attempts)
    /\ t_out.kind = "raise" => Len(sleeps) = 2
    /\ sleeping # 0 => retries < 3

\* C25: the audio file is opened once per attempt and closed before the
\* attempt ends: opens equal attempts, a handle is open only during the
\* service call of the current attempt (so never two at once, never during a
\* wait, a return or a raise), and a failed open is a generic failed attempt
\* under the same budget (2 second wait, at most 3 opens).
C25_HandleScoped ==
    /\ opens = Len(attempts) + (IF pc = "t_create" THEN 1 ELSE 0)
    /\ opens <= 3
    /\ file_open => pc = "t_create"
    /\ pc = "t_open" => ~file_open
    /\ (sleeping # 0 \/ pc = "t_sleep") => ~file_open
    /\ t_out # Pending => ~file_open
    /\ \A i \in 1..Len(attempts) :
          attempts[i] = OpenError =>
              /\ i <= Len(sleeps) => sleeps[i] = 2
              /\ t_out.kind = "return" => i < Len(attempts)
    /\ (t_out.kind = "raise" /\ Last(attempts) = OpenError) =>
          /\ Len(attempts) = 3
          /\ Last(t_out.msg) = "No such file"
C25_Witness ==
    /\ t_out.kind = "raise"
    /\ opens = 3
    /\ attempts[1] = OpenError
    /\ attempts[2].kind = "rate_limit"
    /\ attempts[3] = OpenError

\* ------------------------------------------- diarize_audio, the mapping
UniqueRaw == { RawLabels[k] : k \in 1..Len(RawLabels) }
\* the name_mapping diarize_audio built for the segments the model yielded
Mapping ==
    NameMapping(Sorted(SpeakerSet(Segments(diarization.value))), speaker_names)

\* C26: when re-labelling is applied (diarize_audio has just run) the keys of the name mapping are exactly
\* the unique raw labels of the segments, every segment's speaker is the
\* mapping's value for its raw label, and supplied names beyond the number of
\* unique labels are not used.
C26_MappingCoversLabels ==
    (Diarized /\ pc = "d_done") =>
        /\ DOMAIN Mapping = UniqueRaw
        /\ \A k \in 1..Len(RawLabels) :
              /\ RawLabels[k] \in DOMAIN Mapping
              /\ Speakers[k] = Mapping[RawLabels[k]]
        /\ \A j \in (Cardinality(UniqueRaw) + 1)..Len(SuppliedNames) :
              /\ \A k \in 1..Len(Speakers) : Speakers[k] # SuppliedNames[j]
              /\ \A l \in DOMAIN Mapping : Mapping[l] # SuppliedNames[j]
C26_Witness ==
    /\ Diarized
    /\ pc = "d_done"
    /\ SuppliedNames = <<"Alice", "Bob">>
    /\ RawLabels = <<"SPEAKER_02", "SPEAKER_02", "SPEAKER_02">>
    /\ Speakers = <<"Alice", "Alice", "Alice">>

PairwiseDistinct(names) ==
    \A i \in 1..Len(names) : \A j \in 1..Len(names) : i # j => names[i] # names[j]

\* C29: with pairwise distinct supplied names (or none) re-labelling is
\* one-to-one: two segments get the same display name exactly when they have
\* the same raw label, so speaker changes fall on the same segments.
C29_RelabelOneToOne ==
    (Diarized /\ PairwiseDistinct(SuppliedNames)) =>
        /\ \A k \in 1..Len(RawLabels) : \A h \in 1..Len(RawLabels) :
              (RawLabels[k] = RawLabels[h]) <=> (Speakers[k] = Speakers[h])
        /\ \A k \in 1..Len(RawLabels) :
              SpeakerChanges(diarization.value, k) <=> SpeakerChanges(d_out.value, k)

\* ------------------------------------------- the fallback and the transcript
\* C27: the fallback text is the same for every transcript text with the
\* same segments, and no piece of the transcript occurs in it.
C27_TranscriptIndependent ==
    f_out # Pending =>
        /\ \A t \in Texts :
              create_fallback_diarized_transcript(t, FbSegs) = FbOut
        /\ \A i \in 1..Len(FbOut) : \A j \in 1..Len(f_args.transcript) :
              FbOut[i] # f_args.transcript[j]
C27_Witness ==
    /\ f_out # Pending
    /\ f_args.transcript = <<"hello world">>
    /\ Len(FbSegs) = 2
    /\ FbSegs[1].speaker # FbSegs[2].speaker

\* ------------------------------------ transcribe_and_diarize, credentials
\* C30: HF_TOKEN is examined only after transcription has succeeded: without
\* it transcribe_audio still runs to its end (up to 3 attempts and their
\* waits); the DiarizationError for the missing token is raised only after a
\* successful transcription, and a failed transcription gives
\* TranscriptionError whatever the token.
C30_TokenAfterTranscription ==
    /\ pc = "done" => t_out # Pending
    /\ (pc \in { "d_load", "d_run", "d_done" } \/ d_out # Pending) =>
          t_out.kind = "return"
    /\ t_out.kind = "raise" =>
          /\ d_out = Pending /\ loads = 0
          /\ pc = "done" => result = t_out /\ result.type = "TranscriptionError"
    /\ (~hf_token /\ pc = "done") =>
          /\ Len(attempts) \in 1..3
          /\ result.kind = "raise"
          /\ t_out.kind = "return" =>
                /\ result.type = "DiarizationError"
                /\ SubSeq(result.msg, 3, Len(result.msg)) = NoTokenMessage
                /\ loads = 0
C30_Witness ==
    /\ ~hf_token
    /\ pc = "done"
    /\ Len(attempts) = 3
    /\ Len(sleeps) = 2
    /\ attempts[1].kind = "rate_limit"
    /\ result.kind = "raise"
    /\ result.type = "DiarizationError"

\* ------------------------------------------------------------ main (CLI)
Events(ev) == { i \in 1..Len(m_trace) : m_trace[i].ev = ev }
BothGiven == m_args.audio # None /\ m_args.transcript # None
PathsValid ==
    validate_input_paths(m_args.summary_output, m_args.audio, m_args.transcript,
                         m_args.transcript_output, fs_exists, fs_writable)
ExitedNonZero == pc = "m_exit" /\ exit_code \notin { None, Some(0) }
CheckOrder == <<"both", "api_key", "paths">>

\* C21: main checks, in this order, that not both --audio and --transcript
\* are given, that OPENAI_API_KEY is set, and that the paths are valid; the
\* first failing check ends the run with a non-zero exit status and no later
\* check; transcribe_and_diarize is called only after all three have passed,
\* so never without the API key.
C21_CheckOrder ==
    m_args # None =>
        /\ \A i \in Events("check") :
              i <= 3 /\ m_trace[i].what = CheckOrder[i]
        /\ (Len(m_trace) >= 1 /\ BothGiven) =>
              Len(m_trace) = 1 /\ ExitedNonZero
        /\ (Len(m_trace) >= 2 /\ ~openai_key) =>
              Len(m_trace) = 2 /\ ExitedNonZero
        /\ (Len(m_trace) >= 3 /\ ~PathsValid) =>
              Len(m_trace) = 3 /\ ExitedNonZero
        /\ \A i \in Events("call") :
              /\ i = 4
              /\ \A j \in 1..3 : m_trace[j] = Check(CheckOrder[j])
              /\ ~BothGiven /\ openai_key /\ PathsValid
        /\ ~openai_key => Events("call") = { } /\ result = Pending
C21_Witness ==
    /\ pc = "m_exit"
    /\ ~openai_key
    /\ m_args.audio = Some("in.mp3")
    /\ m_args.transcript = None
    /\ "in.mp3" \in fs_exists
    /\ Len(m_trace) = 2
    /\ exit_code = Some(1)

\* C22: when transcribe_and_diarize raises TranscriptionError or
\* DiarizationError, main exits with a non-zero status and writes neither the
\* diarized transcript nor the summary.
C22_PipelineErrorExits ==
    result.kind = "raise" =>
        /\ result.type \in { "TranscriptionError", "DiarizationError" }
        /\ ExitedNonZero
        /\ Events("write_transcript") = { }
        /\ Events("write_summary") = { }
        /\ Len(m_trace) = 4
C22_Witness ==
    /\ result.kind = "raise"
    /\ result.type = "DiarizationError"
    /\ hf_token
    /\ m_args.transcript_output = Some("tx/diarized.txt")
    /\ m_args.summary_output = "out/summary.md"
    /\ pc = "m_exit"

\* C28: the diarized transcript is written only with audio input, after the
\* pipeline has returned and when --diarized-output was given, and before the
\* summary; with --transcript input the pipeline is not called and no diarized
\* transcript is written; the summary is written only after the transcript
\* content has been obtained (returned by the pipeline or read from the file).
C28_WriteOrder ==
    m_args # None =>
        /\ \A i \in Events("write_transcript") :
              /\ TruthyPath(m_args.audio)
              /\ m_args.transcript_output # None
              /\ m_trace[i].path = m_args.transcript_output.value
              /\ result.kind = "return"
              /\ m_trace[i].content = result.value
              /\ \E c \in Events("call") : c < i
              /\ \A w \in Events("write_summary") : i < w
        /\ m_args.transcript # None =>
              /\ Events("call") = { }
              /\ Events("write_transcript") = { }
              /\ result = Pending
        /\ \A w \in Events("write_summary") :
              /\ w = Len(m_trace)
              /\ transcript_content # None
              /\ m_trace[w].transcript_content = transcript_content.value
              /\ \/ /\ result.kind = "return"
                    /\ transcript_content = Some(result.value)
                    /\ \E c \in Events("call") : c < w
                 \/ /\ result = Pending
                    /\ \E r \in Events("read_transcript") : r < w
C28_Witness ==
    /\ pc = "m_exit"
    /\ exit_code = Some(0)
    /\ Len(m_trace) = 6
    /\ m_trace[4].ev = "call"
    /\ m_trace[5].ev = "write_transcript"
    /\ m_trace[6].ev = "write_summary"

\* ------------------------------------- alignment, the non-fallback case
FallbackTaken ==
    a_out.value = create_fallback_diarized_transcript(transcript.value,
                                                      diarization_segments.value)

\* C31: when the service call succeeds with a content that is not None, the
\* alignment returns that content unchanged, the empty string included, and
\* without the fallback note; the fallback text is returned only when the
\* call raises, the response has no choices, or the content is None.
C31_ContentVerbatim ==
    a_out # Pending =>
        /\ a_out.kind = "return"
        /\ chat.kind = "content" =>
              /\ a_out.value = chat.content
              /\ ~Contains(a_out.value,
                           "[Note: This is a simplified diarization using timestamps only. For a more accurate result, please retry the process.]")
              /\ ~FallbackTaken
        /\ (chat.kind = "content" /\ chat.content = << >>) => a_out.value = << >>
        /\ FallbackTaken <=>
              chat.kind \in { "exception", "no_choices", "content_none" }
C31_Witness ==
    /\ a_out # Pending
    /\ chat.kind = "content"
    /\ chat.content = << >>
    /\ a_out = Return(<< >>)
    /\ Len(diarization_segments.value) = 2
====
